---- MODULE Spec2Model ----
(***************************************************************************)
(* Model of mirror_wiki.py: the two link-rewriting regular expressions,   *)
(* the directory scan convert_gitlab_wiki_links_in_dir and the            *)
(* orchestration copy_github_wiki.                                        *)
(*                                                                         *)
(* A text is a sequence of one-character strings.  The regular            *)
(* expressions are kept as syntax trees and matched by a backtracking     *)
(* matcher that tries the alternatives in the order Python's re module    *)
(* tries them (greedy: longest first, lazy: shortest first), so that the  *)
(* first success is the match re finds.                                   *)
(***************************************************************************)
EXTENDS Integers, Sequences, FiniteSets, TLC

(***************************************************************************)
(* Characters                                                              *)
(***************************************************************************)
\* the white space (\s, str.strip()) that occurs in the modelled texts; open(.., "r")
\* has turned every line ending into "\n"
WS == {" ", "\t", "\n"}
NL == "\n"

(***************************************************************************)
(* Regular-expression syntax trees                                         *)
(***************************************************************************)
In(cs)     == [t |-> "set", neg |-> FALSE, cs |-> cs]
NotIn(cs)  == [t |-> "set", neg |-> TRUE, cs |-> cs]
Lit(ch)    == In({ch})
Cat(xs)    == [t |-> "cat", xs |-> xs]
Alt(xs)    == [t |-> "alt", xs |-> xs]
Star(x)    == [t |-> "star", x |-> x, greedy |-> TRUE]
LazyStar(x) == [t |-> "star", x |-> x, greedy |-> FALSE]
Plus(x)    == Cat(<<x, Star(x)>>)
Opt(x)     == [t |-> "opt", x |-> x]
Grp(n, x)  == [t |-> "grp", n |-> n, x |-> x]
Bol        == [t |-> "bol"]
Eol        == [t |-> "eol"]

\* the prefix without its +: a single segment
PrefixRE_Single == Alt(<<Cat(<<Lit("."), Lit("."), Lit("/")>>), Cat(<<Lit("."), Lit("/")>>)>>)

\* (?:\.\./|\.\/)+   one or more ../ or ./
PrefixRE == Plus(Alt(<<Cat(<<Lit("."), Lit("."), Lit("/")>>), Cat(<<Lit("."), Lit("/")>>)>>))

LINK_INLINE_RE ==
    Cat(<<Lit("["), Grp(1, Plus(NotIn({"]"}))), Lit("]"),
          Lit("("),
          Star(In(WS)),
          PrefixRE,
          Star(In(WS)),
          Grp(2, Cat(<<NotIn({")", "#"} \cup WS), LazyStar(NotIn({")", "#"}))>>)),
          Opt(Grp(3, Cat(<<Lit("#"), Plus(NotIn({")"} \cup WS))>>))),
          Star(In(WS)),
          Lit(")")>>)

REF_LINK_RE ==
    Cat(<<Bol, Star(In(WS)),
          Lit("["), Grp(1, Plus(NotIn({"]"}))), Lit("]"), Lit(":"),
          Star(In(WS)),
          PrefixRE,
          Star(In(WS)),
          Grp(2, Cat(<<NotIn(WS \cup {"#"}), Star(NotIn(WS \cup {"#"}))>>)),
          Opt(Grp(3, Cat(<<Lit("#"), Plus(NotIn(WS))>>))),
          Opt(Cat(<<Plus(In(WS)), In({"\"", "'"}), Plus(NotIn({NL})), In({"\"", "'"})>>)),
          Star(In(WS)), Eol>>)

(***************************************************************************)
(* The backtracking matcher                                                *)
(***************************************************************************)
NGroups == 3
NoCaps == [g \in 1..NGroups |-> [b |-> 0, e |-> 0]]
Fail == [ok |-> FALSE]

\* Match the nodes of todo one after the other against s from position i;
\* c holds the groups captured so far.  The result is the first success in
\* backtracking order: [ok, e (the position after the match), c].
RECURSIVE M(_, _, _, _)
M(todo, s, i, c) ==
    IF todo = <<>> THEN [ok |-> TRUE, e |-> i, c |-> c]
    ELSE LET h == Head(todo)
             rest == Tail(todo)
         IN CASE h.t = "set" ->
                   IF i <= Len(s) /\ ((s[i] \in h.cs) # h.neg)
                   THEN M(rest, s, i + 1, c) ELSE Fail
              [] h.t = "bol" ->
                   IF i = 1 \/ s[i - 1] = NL THEN M(rest, s, i, c) ELSE Fail
              [] h.t = "eol" ->
                   IF i = Len(s) + 1 \/ s[i] = NL THEN M(rest, s, i, c) ELSE Fail
              [] h.t = "cat" -> M(h.xs \o rest, s, i, c)
              [] h.t = "alt" ->
                   IF h.xs = <<>> THEN Fail
                   ELSE LET r == M(<<Head(h.xs)>> \o rest, s, i, c)
                        IN IF r.ok THEN r
                           ELSE M(<<Alt(Tail(h.xs))>> \o rest, s, i, c)
              [] h.t = "opt" ->
                   LET r == M(<<h.x>> \o rest, s, i, c)
                   IN IF r.ok THEN r ELSE M(rest, s, i, c)
              [] h.t = "star" ->
                   IF h.greedy
                   THEN LET r == M(<<h.x, h>> \o rest, s, i, c)
                        IN IF r.ok THEN r ELSE M(rest, s, i, c)
                   ELSE LET r == M(rest, s, i, c)
                        IN IF r.ok THEN r ELSE M(<<h.x, h>> \o rest, s, i, c)
              [] h.t = "grp" ->
                   M(<<[t |-> "open", n |-> h.n], h.x, [t |-> "close", n |-> h.n]>> \o rest,
                     s, i, c)
              [] h.t = "open" -> M(rest, s, i, [c EXCEPT ![h.n].b = i])
              [] h.t = "close" -> M(rest, s, i, [c EXCEPT ![h.n].e = i])

\* re.search from position from: the leftmost start at which re matches.
RECURSIVE Search(_, _, _)
Search(re, s, from) ==
    IF from > Len(s) + 1 THEN Fail
    ELSE LET r == M(<<re>>, s, from, NoCaps)
         IN IF r.ok THEN [ok |-> TRUE, b |-> from, e |-> r.e, c |-> r.c]
            ELSE Search(re, s, from + 1)

\* m.group(g): the captured text, or <<>> for a group that did not take part
Group(s, m, g) ==
    IF m.c[g].e = 0 THEN <<>> ELSE SubSeq(s, m.c[g].b, m.c[g].e - 1)

\* str.strip()
RECURSIVE LStrip(_)
LStrip(s) == IF s # <<>> /\ Head(s) \in WS THEN LStrip(Tail(s)) ELSE s
RECURSIVE RStrip(_)
RStrip(s) == IF s # <<>> /\ s[Len(s)] \in WS THEN RStrip(SubSeq(s, 1, Len(s) - 1)) ELSE s
Strip(s) == LStrip(RStrip(s))

(***************************************************************************)
(* The two substitutions                                                   *)
(***************************************************************************)
replace_inline_match(s, m) ==
    LET label == Group(s, m, 1)
        path == Strip(Group(s, m, 2))
        anchor == Group(s, m, 3)
    IN <<"[">> \o label \o <<"]", "(">> \o path \o anchor \o <<")">>

replace_ref_match(s, m) ==
    LET label == Group(s, m, 1)
        path == Strip(Group(s, m, 2))
        anchor == Group(s, m, 3)
    IN <<"[">> \o label \o <<"]", ":", " ">> \o path \o anchor

Replace(kind, s, m) ==
    IF kind = "inline" THEN replace_inline_match(s, m) ELSE replace_ref_match(s, m)

\* pattern.subn(repl, s): every non-overlapping match, leftmost first, is
\* replaced; the search resumes where the previous match ended.  The result
\* is [text, n].  (Neither pattern matches the empty string.)
RECURSIVE SubnFrom(_, _, _, _, _, _)
SubnFrom(re, kind, s, pos, out, n) ==
    LET m == Search(re, s, pos)
    IN IF ~m.ok THEN [text |-> out \o SubSeq(s, pos, Len(s)), n |-> n]
       ELSE SubnFrom(re, kind, s, m.e,
                     out \o SubSeq(s, pos, m.b - 1) \o Replace(kind, s, m), n + 1)

InlineSubn(s) == SubnFrom(LINK_INLINE_RE, "inline", s, 1, <<>>, 0)
RefSubn(s) == SubnFrom(REF_LINK_RE, "ref", s, 1, <<>>, 0)

(***************************************************************************)
(* File names                                                              *)
(***************************************************************************)
\* str.lower() on ASCII text
Uppers == <<"A", "B", "C", "D", "E", "F", "G", "H", "I", "J", "K", "L", "M",
            "N", "O", "P", "Q", "R", "S", "T", "U", "V", "W", "X", "Y", "Z">>
Lowers == <<"a", "b", "c", "d", "e", "f", "g", "h", "i", "j", "k", "l", "m",
            "n", "o", "p", "q", "r", "s", "t", "u", "v", "w", "x", "y", "z">>
Lower(ch) ==
    IF \E k \in 1..Len(Uppers) : Uppers[k] = ch
    THEN Lowers[CHOOSE k \in 1..Len(Uppers) : Uppers[k] = ch]
    ELSE ch
LowerStr(s) == [k \in 1..Len(s) |-> Lower(s[k])]
EndsWith(s, suf) ==
    Len(s) >= Len(suf) /\ SubSeq(s, Len(s) - Len(suf) + 1, Len(s)) = suf
DotMd == <<".", "m", "d">>
DotMarkdown == <<".", "m", "a", "r", "k", "d", "o", "w", "n">>
\* the test without lower()
IsMarkdown_CaseSensitive(name) == EndsWith(name, DotMd) \/ EndsWith(name, DotMarkdown)

\* filename.lower().endswith((".md", ".markdown"))
IsMarkdown(name) ==
    EndsWith(LowerStr(name), DotMd) \/ EndsWith(LowerStr(name), DotMarkdown)
HomeName == <<"H", "o", "m", "e", ".", "m", "d">>

(***************************************************************************)
(* State                                                                   *)
(***************************************************************************)
VARIABLES
    argc,               \* len(sys.argv)
    pc,                 \* the statement the run is at
    wiki,               \* the files of the source wiki, as git clone delivers them
    tree,               \* the files of the working copy, in os.walk order
    idx,                \* the file the scan is at
    content,            \* content, as read
    new_content,        \* new_content
    n1,                 \* replacements of the inline rule in this file
    n2,                 \* replacements of the reference rule in this file
    files_changed,
    total_replacements,
    written,            \* the files opened for writing so far
    report,             \* what convert_gitlab_wiki_links_in_dir returned, <<>> before
    log,                \* the commands run() was called with, and how each ended
    commits,            \* the commits created in the working copy
    remote,             \* where origin points
    tmpdir,             \* the temporary directory: "none", "exists", "deleted"
    success_msg,        \* "Wiki copied successfully" has been printed
    exit_code,          \* the process's exit status, -1 while it runs
    io_error,           \* the file at which an open, read or write last raised OSError, 0: none
    probe               \* how the text under test was put together (rule specifications)

vars == <<argc, pc, wiki, tree, idx, content, new_content, n1, n2, files_changed,
          total_replacements, written, report, log, commits, remote, tmpdir,
          success_msg, exit_code, io_error, probe>>

scanVars == <<idx, content, new_content, n1, n2, files_changed, total_replacements,
              written, report>>
gitVars == <<log, commits, remote, success_msg>>

File(name, text, utf8) == [name |-> name, text |-> text, utf8 |-> utf8]

(***************************************************************************)
(* The wikis the runs are checked on                                       *)
(***************************************************************************)
MaxFiles == 3
\* len(sys.argv): the script alone, with one, two and three arguments
Argcs == {1, 2, 3, 4}

\* two inline links with ../ prefixes
TwoInline == <<"[", "a", "]", "(", ".", ".", "/", "X", ")",
               "[", "b", "]", "(", ".", ".", "/", "Y", ")">>
\* one reference definition with a ./ prefix and a title
RefTitle == <<"[", "R", "]", ":", " ", ".", "/", "P", " ", "\"", "T", "\"">>
\* no qualifying link
NoLinks == <<"[", "L", "]", "(", "/", "x", ")">>
OneInline == <<"[", "L", "]", "(", ".", "/", "X", ")">>
AnchorInline == <<"[", "c", "]", "(", ".", "/", "Z", "#", "s", ")">>

Corpus == <<
    File(<<"a", ".", "m", "d">>, TwoInline, TRUE),
    File(<<"r", ".", "M", "A", "R", "K", "D", "O", "W", "N">>, RefTitle, TRUE),
    File(<<"n", ".", "m", "d">>, NoLinks, TRUE),
    File(<<"t", ".", "t", "x", "t">>, OneInline, TRUE),
    File(HomeName, <<"h", "i">>, TRUE),
    File(<<"x", ".", "M", "d">>, AnchorInline, FALSE)>>

Injective(f) == \A a, b \in DOMAIN f : f[a] = f[b] => a = b
Picks(n) == {f \in [1..n -> 1..Len(Corpus)] : Injective(f)}
Trees == UNION {{[k \in 1..n |-> Corpus[f[k]]] : f \in Picks(n)} : n \in 0..MaxFiles}

NoProbe == [kind |-> "none"]

Init ==
    /\ argc \in Argcs
    /\ wiki \in Trees
    /\ pc = "main"
    /\ tree = <<>>
    /\ idx = 0
    /\ content = <<>>
    /\ new_content = <<>>
    /\ n1 = 0
    /\ n2 = 0
    /\ files_changed = 0
    /\ total_replacements = 0
    /\ written = {}
    /\ report = <<>>
    /\ log = <<>>
    /\ commits = <<>>
    /\ remote = "gitlab"
    /\ tmpdir = "none"
    /\ success_msg = FALSE
    /\ exit_code = -1
    /\ io_error = 0
    /\ probe = NoProbe

(***************************************************************************)
(* copy_github_wiki and the entry point                                    *)
(***************************************************************************)
\* run(cmd): the command is printed and run; ok is whether it exited with 0
\* (check=True turns another exit status into CalledProcessError)
Ran(cmd, ok) == log' = Append(log, [cmd |-> cmd, ok |-> ok])

\* an exception nobody catches leaves the with block and ends the process
Raise ==
    /\ tmpdir' = "deleted"
    /\ exit_code' = 1
    /\ pc' = "exited"

\* if len(sys.argv) < 3: usage, sys.exit(1)
Usage ==
    /\ pc = "main" /\ argc < 3
    /\ exit_code' = 1
    /\ pc' = "exited"
    /\ UNCHANGED <<argc, wiki, io_error, tree, scanVars, gitVars, tmpdir, probe>>

\* copy_github_wiki is entered: the temporary directory is created
Enter ==
    /\ pc = "main" /\ argc >= 3
    /\ tmpdir' = "exists"
    /\ pc' = "clone"
    /\ UNCHANGED <<argc, wiki, io_error, tree, scanVars, gitVars, exit_code, probe>>

CloneOk ==
    /\ pc = "clone"
    /\ Ran("clone", TRUE)
    /\ tree' = wiki
    /\ pc' = "set_url"
    /\ UNCHANGED <<argc, wiki, io_error, scanVars, commits, remote, success_msg, tmpdir, exit_code, probe>>

\* the handler without its return
CloneFailed_Continues ==
    /\ pc = "clone"
    /\ Ran("clone", FALSE)
    /\ pc' = "set_url"
    /\ UNCHANGED <<argc, wiki, io_error, tree, scanVars, commits, remote, success_msg, tmpdir,
                   exit_code, probe>>

\* except subprocess.CalledProcessError: "Source wiki not found", return
CloneFailed ==
    /\ pc = "clone"
    /\ Ran("clone", FALSE)
    /\ tmpdir' = "deleted"
    /\ exit_code' = 0
    /\ pc' = "exited"
    /\ UNCHANGED <<argc, wiki, io_error, tree, scanVars, commits, remote, success_msg, probe>>

\* git remote set-url origin github_url, then convert_gitlab_wiki_links_in_dir
\* is entered: files_changed = 0, total_replacements = 0, os.walk starts
SetUrl ==
    /\ pc = "set_url"
    /\ \E ok \in BOOLEAN :
         /\ Ran("set-url", ok)
         /\ IF ok
            THEN /\ remote' = "github"
                 /\ pc' = "walk"
                 /\ idx' = 1
                 /\ files_changed' = 0
                 /\ total_replacements' = 0
                 /\ UNCHANGED <<tmpdir, exit_code>>
            ELSE /\ Raise
                 /\ UNCHANGED <<remote, idx, files_changed, total_replacements>>
    /\ UNCHANGED <<argc, wiki, io_error, tree, content, new_content, n1, n2, written, report,
                   commits, success_msg, probe>>

(***************************************************************************)
(* convert_gitlab_wiki_links_in_dir                                        *)
(***************************************************************************)
orchVars == <<argc, wiki, log, commits, remote, success_msg, probe>>

\* the for loop: a file that is not markdown is passed over (continue)
Skip ==
    /\ pc = "walk" /\ idx <= Len(tree)
    /\ ~IsMarkdown(tree[idx].name)
    /\ idx' = idx + 1
    /\ UNCHANGED <<pc, tree, content, new_content, n1, n2, files_changed,
                   total_replacements, written, report, tmpdir, exit_code>>
    /\ UNCHANGED orchVars
    /\ UNCHANGED io_error

\* open(filepath, "r", encoding="utf-8") and fh.read(): it succeeds on a file
\* that is valid UTF-8 when no I/O error occurs; every exception (a decoding
\* error, an I/O error) is caught by except Exception
ReadUtf8 ==
    /\ pc = "walk" /\ idx <= Len(tree)
    /\ IsMarkdown(tree[idx].name)
    /\ \E io_ok \in BOOLEAN :
         /\ io_error' = IF io_ok THEN io_error ELSE idx
         /\ IF io_ok /\ tree[idx].utf8
            THEN /\ content' = tree[idx].text
                 /\ pc' = "inline"
            ELSE /\ pc' = "latin1"
                 /\ UNCHANGED content
    /\ UNCHANGED <<tree, idx, new_content, n1, n2, files_changed, total_replacements,
                   written, report, tmpdir, exit_code>>
    /\ UNCHANGED orchVars

\* the handler: open(filepath, "r", encoding="latin1") and fh.read(); latin1
\* decodes every byte, an I/O error here is not caught
ReadLatin1 ==
    /\ pc = "latin1"
    /\ \E io_ok \in BOOLEAN :
         IF io_ok
         THEN /\ content' = tree[idx].text
              /\ pc' = "inline"
              /\ UNCHANGED <<tmpdir, exit_code, io_error>>
         ELSE /\ Raise
              /\ io_error' = idx
              /\ UNCHANGED content
    /\ UNCHANGED <<tree, idx, new_content, n1, n2, files_changed, total_replacements,
                   written, report>>
    /\ UNCHANGED orchVars

\* new_content, n1 = LINK_INLINE_RE.subn(_replace_inline_match, new_content)
ApplyInline ==
    /\ pc = "inline"
    /\ LET r == InlineSubn(content)
       IN /\ new_content' = r.text
          /\ n1' = r.n
    /\ pc' = "ref"
    /\ UNCHANGED <<tree, idx, content, n2, files_changed, total_replacements,
                   written, report, tmpdir, exit_code>>
    /\ UNCHANGED orchVars
    /\ UNCHANGED io_error

\* new_content, n2 = REF_LINK_RE.subn(_replace_ref_match, new_content)
ApplyRef ==
    /\ pc = "ref"
    /\ LET r == RefSubn(new_content)
       IN /\ new_content' = r.text
          /\ n2' = r.n
    /\ pc' = "write"
    /\ UNCHANGED <<tree, idx, content, n1, files_changed, total_replacements,
                   written, report, tmpdir, exit_code>>
    /\ UNCHANGED orchVars
    /\ UNCHANGED io_error

\* n = n1 + n2; if n > 0 is false: nothing is written
Unchanged ==
    /\ pc = "write" /\ n1 + n2 = 0
    /\ idx' = idx + 1
    /\ pc' = "walk"
    /\ UNCHANGED <<tree, content, new_content, n1, n2, files_changed,
                   total_replacements, written, report, tmpdir, exit_code>>
    /\ UNCHANGED orchVars
    /\ UNCHANGED io_error

\* total_replacements += 1 in place of += n
WriteBack_CountsFiles ==
    /\ pc = "write" /\ n1 + n2 > 0
    /\ tree' = [tree EXCEPT ![idx] = File(tree[idx].name, new_content, TRUE)]
    /\ written' = written \cup {idx}
    /\ files_changed' = files_changed + 1
    /\ total_replacements' = total_replacements + 1
    /\ idx' = idx + 1
    /\ pc' = "walk"
    /\ UNCHANGED <<content, new_content, n1, n2, report, tmpdir, exit_code>>
    /\ UNCHANGED orchVars
    /\ UNCHANGED io_error

\* if n > 0: the file is opened for writing and new_content written as UTF-8,
\* files_changed += 1, total_replacements += n
WriteBack ==
    /\ pc = "write" /\ n1 + n2 > 0
    /\ tree' = [tree EXCEPT ![idx] = File(tree[idx].name, new_content, TRUE)]
    /\ written' = written \cup {idx}
    /\ files_changed' = files_changed + 1
    /\ total_replacements' = total_replacements + (n1 + n2)
    /\ idx' = idx + 1
    /\ pc' = "walk"
    /\ UNCHANGED <<content, new_content, n1, n2, report, tmpdir, exit_code>>
    /\ UNCHANGED orchVars
    /\ UNCHANGED io_error

\* open(filepath, "w") or fh.write raises (permission denied, disk full): not
\* caught.  When open succeeded the file has been truncated and holds the part
\* of new_content that reached it.
WriteFailed ==
    /\ pc = "write" /\ n1 + n2 > 0
    /\ \E opened \in BOOLEAN, k \in 0..Len(new_content) :
         IF opened
         THEN /\ tree' = [tree EXCEPT
                            ![idx] = File(tree[idx].name, SubSeq(new_content, 1, k), TRUE)]
              /\ written' = written \cup {idx}
         ELSE /\ k = 0
              /\ UNCHANGED <<tree, written>>
    /\ Raise
    /\ io_error' = idx
    /\ UNCHANGED <<idx, content, new_content, n1, n2, files_changed,
                   total_replacements, report>>
    /\ UNCHANGED orchVars

\* os.walk is exhausted: return files_changed, total_replacements
Return ==
    /\ pc = "walk" /\ idx > Len(tree)
    /\ report' = <<files_changed, total_replacements>>
    /\ pc' = "status"
    /\ UNCHANGED <<tree, idx, content, new_content, n1, n2, files_changed,
                   total_replacements, written, tmpdir, exit_code>>
    /\ UNCHANGED orchVars
    /\ UNCHANGED io_error

(***************************************************************************)
(* copy_github_wiki after the rewrite                                      *)
(***************************************************************************)
fileVars == <<argc, wiki, tree, scanVars, io_error, probe>>

\* git status --porcelain prints the paths whose content differs from HEAD;
\* subprocess.run without check: a failed git status prints nothing
Dirty == tree # wiki

\* staging whatever git status printed
Status_Always ==
    /\ pc = "status"
    /\ pc' = "add"
    /\ UNCHANGED <<fileVars, gitVars, tmpdir, exit_code>>

Status ==
    /\ pc = "status"
    /\ \E ok \in BOOLEAN :
         pc' = IF ok /\ Dirty THEN "add" ELSE "checkout"
    /\ UNCHANGED <<fileVars, gitVars, tmpdir, exit_code>>

\* git add -A
Add ==
    /\ pc = "add"
    /\ \E ok \in BOOLEAN :
         /\ Ran("add", ok)
         /\ IF ok THEN pc' = "commit" /\ UNCHANGED <<tmpdir, exit_code>> ELSE Raise
    /\ UNCHANGED <<fileVars, commits, remote, success_msg>>

\* git commit -m "chore: rewrite ..."; a failure is caught and passed over
Commit ==
    /\ pc = "commit"
    /\ \E ok \in BOOLEAN :
         /\ Ran("commit", ok)
         /\ commits' = IF ok THEN Append(commits, "rewrite") ELSE commits
    /\ pc' = "checkout"
    /\ UNCHANGED <<fileVars, remote, success_msg, tmpdir, exit_code>>

\* git checkout master
Checkout ==
    /\ pc = "checkout"
    /\ \E ok \in BOOLEAN :
         /\ Ran("checkout", ok)
         /\ pc' = IF ok THEN "push" ELSE "branch"
    /\ UNCHANGED <<fileVars, commits, remote, success_msg, tmpdir, exit_code>>

\* except: git branch -M master
Branch ==
    /\ pc = "branch"
    /\ \E ok \in BOOLEAN :
         /\ Ran("branch", ok)
         /\ IF ok THEN pc' = "push" /\ UNCHANGED <<tmpdir, exit_code>> ELSE Raise
    /\ UNCHANGED <<fileVars, commits, remote, success_msg>>

\* print("Wiki copied successfully ..."), the with block ends, the script ends
Succeed ==
    /\ success_msg' = TRUE
    /\ tmpdir' = "deleted"
    /\ exit_code' = 0
    /\ pc' = "exited"

\* git push origin master --force
Push ==
    /\ pc = "push"
    /\ \E ok \in BOOLEAN :
         /\ Ran("push", ok)
         /\ IF ok THEN Succeed
            ELSE pc' = "fallback" /\ UNCHANGED <<success_msg, tmpdir, exit_code>>
    /\ UNCHANGED <<fileVars, commits, remote>>

\* os.path.exists(os.path.join(tmpdir, "Home.md"))
HomeExists == \E k \in 1..Len(tree) : tree[k].name = HomeName

\* if not os.path.exists(home_path): open(home_path, "w"), write the starter page
WriteHome ==
    /\ pc = "fallback" /\ ~HomeExists
    /\ \E io_ok \in BOOLEAN :
         IF io_ok
         THEN /\ tree' = Append(tree, File(HomeName, <<"#">>, TRUE))
              /\ pc' = "home_add"
              /\ UNCHANGED <<tmpdir, exit_code>>
         ELSE /\ Raise
              /\ UNCHANGED tree
    /\ UNCHANGED <<argc, wiki, io_error, scanVars, probe, gitVars>>

\* Home.md exists: nothing is created, staged or committed
HomeKept ==
    /\ pc = "fallback" /\ HomeExists
    /\ pc' = "push2"
    /\ UNCHANGED <<fileVars, gitVars, tmpdir, exit_code>>

\* git add Home.md
HomeAdd ==
    /\ pc = "home_add"
    /\ \E ok \in BOOLEAN :
         /\ Ran("home-add", ok)
         /\ IF ok THEN pc' = "home_commit" /\ UNCHANGED <<tmpdir, exit_code>> ELSE Raise
    /\ UNCHANGED <<fileVars, commits, remote, success_msg>>

\* git commit -m "Initialize wiki"
HomeCommit ==
    /\ pc = "home_commit"
    /\ \E ok \in BOOLEAN :
         /\ Ran("home-commit", ok)
         /\ IF ok
            THEN /\ commits' = Append(commits, "init")
                 /\ pc' = "push2"
                 /\ UNCHANGED <<tmpdir, exit_code>>
            ELSE /\ Raise
                 /\ UNCHANGED commits
    /\ UNCHANGED <<fileVars, remote, success_msg>>

\* the second push with its failure passed over
Push2_Swallowed ==
    /\ pc = "push2"
    /\ \E ok \in BOOLEAN :
         /\ Ran("push-u", ok)
         /\ Succeed
    /\ UNCHANGED <<fileVars, commits, remote>>

\* git push -u origin master --force
Push2 ==
    /\ pc = "push2"
    /\ \E ok \in BOOLEAN :
         /\ Ran("push-u", ok)
         /\ IF ok THEN Succeed ELSE Raise /\ UNCHANGED success_msg
    /\ UNCHANGED <<fileVars, commits, remote>>

Next ==
    \/ Usage \/ Enter \/ CloneOk \/ CloneFailed \/ SetUrl
    \/ Skip \/ ReadUtf8 \/ ReadLatin1 \/ ApplyInline \/ ApplyRef
    \/ Unchanged \/ WriteBack \/ WriteFailed \/ Return
    \/ Status \/ Add \/ Commit \/ Checkout \/ Branch \/ Push
    \/ WriteHome \/ HomeKept \/ HomeAdd \/ HomeCommit \/ Push2

Spec == Init /\ [][Next]_vars

(***************************************************************************)
(* What the claims speak of                                                *)
(***************************************************************************)
RECURSIVE SumTo(_, _)
SumTo(f, n) == IF n = 0 THEN 0 ELSE f[n] + SumTo(f, n - 1)

\* the combined replacement count of a text: inline rule, then reference rule
Combined(text) == InlineSubn(text).n + RefSubn(InlineSubn(text).text).n

\* a markdown-family extension, compared case-insensitively: the name ends
\* with .md or .markdown in some mix of upper and lower case
CasePairs == {<<"a", "A">>, <<"d", "D">>, <<"k", "K">>, <<"m", "M">>,
              <<"n", "N">>, <<"o", "O">>, <<"r", "R">>, <<"w", "W">>}
SameLetter(lower, ch) == ch = lower \/ <<lower, ch>> \in CasePairs
EndsWithAnyCase(name, suf) ==
    /\ Len(name) >= Len(suf)
    /\ \A k \in 1..Len(suf) : SameLetter(suf[k], name[Len(name) - Len(suf) + k])
HasMdExtension(name) ==
    EndsWithAnyCase(name, DotMd) \/ EndsWithAnyCase(name, DotMarkdown)

\* the combined counts of the texts the wikis are made of
CorpusCounts == [i \in 1..Len(Corpus) |-> Combined(Corpus[i].text)]
CountOf(text) == CorpusCounts[CHOOSE i \in 1..Len(Corpus) : Corpus[i].text = text]

\* file k of the wiki is a markdown file with at least one qualifying link
Qualifies(k) == HasMdExtension(wiki[k].name) /\ CountOf(wiki[k].text) > 0
Cloned == Len(log) >= 1 /\ log[1].ok
Has(cmd) == \E k \in 1..Len(log) : log[k].cmd = cmd
HasOk(cmd) == \E k \in 1..Len(log) : log[k].cmd = cmd /\ log[k].ok
HasFailed(cmd) == \E k \in 1..Len(log) : log[k].cmd = cmd /\ ~log[k].ok

\* C5: the files written so far are exactly the markdown-family files, among
\* those the scan has passed, whose combined replacement count is greater than
\* zero; a file with another extension or with no qualifying link is never
\* opened for writing and keeps its content.
C5_SelectiveWrite ==
    Cloned =>
        \A k \in 1..Len(wiki) :
            /\ k < idx => (k \in written <=> Qualifies(k))
            /\ ~Qualifies(k) => k \notin written /\ tree[k] = wiki[k]
            /\ k \notin written => tree[k] = wiki[k]

\* the scan has returned after writing one file and leaving alone a text file
\* with a qualifying link and a markdown file without one
C5_Witness ==
    /\ report # <<>>
    /\ Cardinality(written) = 1
    /\ \E k \in 1..Len(wiki) : ~HasMdExtension(wiki[k].name) /\ CountOf(wiki[k].text) > 0
    /\ \E k \in 1..Len(wiki) : HasMdExtension(wiki[k].name) /\ CountOf(wiki[k].text) = 0

\* C6: on return files_changed is the number of markdown-family files with a
\* combined count above zero and total_replacements the sum of their counts;
\* files_changed <= total_replacements throughout; the three-document tree of
\* the end-to-end scenario reports (2, 3).
Scenario == <<Corpus[1], Corpus[2], Corpus[3]>>
C6_Report ==
    /\ files_changed <= total_replacements
    /\ report # <<>> =>
         /\ report[1] = Cardinality({k \in 1..Len(wiki) : Qualifies(k)})
         /\ report[2] = SumTo([k \in 1..Len(wiki) |->
                                  IF Qualifies(k) THEN CountOf(wiki[k].text) ELSE 0],
                              Len(wiki))
         /\ wiki = Scenario => report = <<2, 3>>

C6_Witness == wiki = Scenario /\ report = <<2, 3>>

\* the place of a command in the order copy_github_wiki is said to keep
Rank(cmd) ==
    CASE cmd = "clone" -> 1 [] cmd = "set-url" -> 2 [] cmd = "add" -> 4
      [] cmd = "commit" -> 5 [] cmd = "checkout" -> 6 [] cmd = "branch" -> 7
      [] cmd = "push" -> 8 [] cmd = "home-add" -> 9 [] cmd = "home-commit" -> 10
      [] cmd = "push-u" -> 11
RewriteStarted == idx > 0
RewriteDone == report # <<>>

\* C7: the steps occur in the order clone, set remote URL, link rewrite,
\* (stage and commit), branch selection, push; nothing follows a failed clone:
\* the run then ends normally with exit status 0, origin still points at the
\* source, nothing was rewritten, committed or pushed, and the temporary
\* directory is deleted.
C7_Order ==
    /\ \A i, j \in 1..Len(log) : i < j => Rank(log[i].cmd) < Rank(log[j].cmd)
    /\ Len(log) >= 1 => log[1].cmd = "clone"
    /\ Len(log) >= 2 => log[1].ok
    /\ remote = "github" => HasOk("clone") /\ HasOk("set-url")
    /\ RewriteStarted => HasOk("clone") /\ HasOk("set-url")
    /\ Has("add") \/ Has("checkout") => RewriteDone
    /\ Has("commit") => HasOk("add")
    /\ Has("push") => HasOk("set-url") /\ (HasOk("checkout") \/ HasOk("branch"))
    /\ HasFailed("clone") =>
         /\ pc = "exited" /\ exit_code = 0
         /\ remote = "gitlab"
         /\ ~RewriteStarted /\ ~RewriteDone /\ tree = <<>> /\ written = {}
         /\ commits = <<>>
         /\ Len(log) = 1
         /\ tmpdir = "deleted"
    /\ pc = "exited" /\ Len(log) >= 1 => tmpdir = "deleted"

\* a run that went through every step
C7_Witness ==
    /\ success_msg
    /\ HasOk("clone") /\ HasOk("set-url") /\ RewriteDone /\ HasOk("add") /\ HasOk("commit")
    /\ HasFailed("checkout") /\ HasOk("branch") /\ HasOk("push")

InCommits(c) == \E k \in 1..Len(commits) : commits[k] = c

\* C8: git add and git commit are run only when the rewrite changed a file;
\* when it changed none, no commit exists when the push is made; a failed
\* commit is passed over and the run goes on to branch selection and push.
C8_CommitOnlyOnChange ==
    /\ Has("add") \/ Has("commit") => RewriteDone /\ report[1] > 0
    /\ RewriteDone /\ report[1] = 0 =>
         /\ ~InCommits("rewrite")
         /\ pc \in {"checkout", "branch", "push", "fallback"} => commits = <<>>
    /\ \A i \in 1..Len(log) :
         log[i].cmd = "commit" /\ ~log[i].ok =>
           IF i = Len(log) THEN pc = "checkout" /\ exit_code = -1
           ELSE log[i + 1].cmd = "checkout"
    /\ HasFailed("commit") /\ (HasOk("checkout") \/ HasOk("branch")) =>
         pc = "push" \/ Has("push")

\* the commit failed and the push was made all the same
C8_Witness == HasFailed("commit") /\ HasOk("push") /\ success_msg

WikiHasHome == \E k \in 1..Len(wiki) : wiki[k].name = HomeName

\* C9 as stated: whenever the first push fails, Home.md is initialized and
\* committed before the second push.
C9_AlwaysInitializes ==
    Has("push-u") => HasOk("home-add") /\ HasOk("home-commit") /\ InCommits("init")

\* C9, amended: when the first push fails and the working copy has no Home.md,
\* Home.md is created, staged and committed, and a failure of one of these
\* ends the run with a non-zero status; when Home.md exists nothing is
\* created or committed; in both cases the push is then made again.  The
\* success message is printed only when one of the two pushes succeeded, and a
\* failed second push ends the run with a non-zero status.
C9_Fallback ==
    /\ HasFailed("push") /\ ~WikiHasHome =>
         /\ Has("push-u") =>
              /\ HasOk("home-add") /\ HasOk("home-commit")
              /\ InCommits("init")
              /\ HomeExists
         /\ pc = "exited" /\ ~Has("push-u") => exit_code = 1 /\ ~success_msg
    /\ HasFailed("push") /\ WikiHasHome =>
         /\ ~Has("home-add") /\ ~Has("home-commit") /\ ~InCommits("init")
         /\ pc = "exited" => Has("push-u")
    /\ Has("push-u") => HasFailed("push")
    /\ success_msg => (HasOk("push") \/ HasOk("push-u")) /\ exit_code = 0
    /\ HasFailed("push-u") => pc = "exited" /\ exit_code = 1 /\ ~success_msg

\* the first push failed, Home.md was there, the second push succeeded
C9_Witness == HasFailed("push") /\ WikiHasHome /\ HasOk("push-u") /\ success_msg

\* C10: an I/O error on read or write is not caught: the pass ends at that
\* file and no report is returned.
C10_IoErrorAborts ==
    io_error # 0 =>
        /\ pc \in {"latin1", "exited"}
        /\ idx = io_error
        /\ ~RewriteDone

(***************************************************************************)
(* The two rules on families of texts: the state is the one the scan is in *)
(* after reading the only file of a one-file wiki, and the steps are the   *)
(* two substitutions.                                                      *)
(***************************************************************************)
MaxSegs == 2
MaxParts == 4
MaxLines == 3

RECURSIVE Flatten(_)
Flatten(ss) == IF ss = <<>> THEN <<>> ELSE Head(ss) \o Flatten(Tail(ss))
RECURSIVE Join(_)
Join(ls) ==
    IF ls = <<>> THEN <<>>
    ELSE IF Len(ls) = 1 THEN ls[1] ELSE ls[1] \o <<NL>> \o Join(Tail(ls))
SeqsUpTo(S, lo, hi) == UNION {[1..n -> S] : n \in lo..hi}
Contains(s, sub) ==
    \E k \in 0..(Len(s) - Len(sub)) : SubSeq(s, k + 1, k + Len(sub)) = sub

DotDotSlash == <<".", ".", "/">>
DotSlash == <<".", "/">>
PageName == <<"p", ".", "m", "d">>

RuleInit(text, pr) ==
    /\ argc = 3
    /\ wiki = <<File(PageName, text, TRUE)>>
    /\ tree = wiki
    /\ pc = "inline"
    /\ idx = 1
    /\ content = text
    /\ new_content = <<>>
    /\ n1 = 0
    /\ n2 = 0
    /\ files_changed = 0
    /\ total_replacements = 0
    /\ written = {}
    /\ report = <<>>
    /\ log = <<[cmd |-> "clone", ok |-> TRUE], [cmd |-> "set-url", ok |-> TRUE]>>
    /\ commits = <<>>
    /\ remote = "github"
    /\ tmpdir = "exists"
    /\ success_msg = FALSE
    /\ exit_code = -1
    /\ io_error = 0
    /\ probe = pr

RuleNext == ApplyInline \/ ApplyRef

(* ---- inline links [L](prefix X#A) in plain surroundings ---- *)
Surroundings == {<<<<>>, <<>>>>, <<<<"t", " ">>, <<NL, "u">>>>,
                 <<<<"[">>, <<"(">>>>, <<<<")">>, <<"]">>>>}
Labels == {<<"L">>, <<"a", " ", "b">>, <<"[", "x">>, <<"p", " ", "#", "q">>, <<"(", "y", ")">>}
Spacings == {<<<<>>, <<>>, <<>>>>, <<<<" ">>, <<>>, <<>>>>, <<<<>>, <<" ">>, <<>>>>,
             <<<<>>, <<>>, <<" ">>>>, <<<<" ">>, <<NL>>, <<"\t", " ">>>>,
             <<<<NL>>, <<>>, <<NL>>>>}
SegSeqs == SeqsUpTo({DotDotSlash, DotSlash}, 1, MaxSegs)
\* paths: no ), no #, no white space at either end, not themselves starting
\* with a ../ or ./ segment
Paths == {<<"X">>, <<"a", "/", "b">>, <<"X", " ", "Y">>, <<".", "x">>, <<".", ".">>,
          <<"p", "[", "q", "]", "(">>, <<"/", "r">>}
Anchors == {<<>>, <<"#", "s">>, <<"#", "a", "#", "b">>, <<"#", "[", "1", "]">>}
InlineProbes ==
    [kind : {"inline"}, around : Surroundings, label : Labels, ws : Spacings,
     segs : SegSeqs, path : Paths, anchor : Anchors]
InlineText(pr) ==
    pr.around[1] \o <<"[">> \o pr.label \o <<"]", "(">> \o pr.ws[1] \o Flatten(pr.segs)
        \o pr.ws[2] \o pr.path \o pr.anchor \o pr.ws[3] \o <<")">> \o pr.around[2]
InlineExpected(pr) ==
    pr.around[1] \o <<"[">> \o pr.label \o <<"]", "(">> \o pr.path \o pr.anchor
        \o <<")">> \o pr.around[2]

InitInline == \E pr \in InlineProbes : RuleInit(InlineText(pr), pr)
SpecInline == InitInline /\ [][RuleNext]_vars

\* C2: [L](prefix X#A), with one or more ../ and ./ segments and optional
\* white space inside the parentheses, is rewritten to exactly [L](X#A),
\* whatever the segments are; the text around the link is unchanged.
C2_PrefixCollapse ==
    pc \in {"ref", "write"} => n1 = 1 /\ (pc = "ref" => new_content = InlineExpected(probe))

\* a link with segments of both kinds, white space and an anchor
C2_Witness ==
    /\ pc = "ref"
    /\ Len(probe.segs) = MaxSegs /\ probe.segs[1] # probe.segs[2]
    /\ probe.anchor # <<>> /\ probe.ws[2] # <<>> /\ probe.around[1] # <<>>
    /\ new_content = InlineExpected(probe)

(* ---- texts made of prefix segments, spaces, a page name and an anchor ---- *)
Parts == {DotDotSlash, DotSlash, <<" ">>, <<"X">>, <<"#", "s">>}
IdemTexts ==
    {<<"[", "L", "]", "(">> \o Flatten(ps) \o <<")">> : ps \in SeqsUpTo(Parts, 1, MaxParts)}
    \cup {<<"[", "R", "]", ":", " ">> \o Flatten(ps) : ps \in SeqsUpTo(Parts, 1, MaxParts)}

InitIdem == \E text \in IdemTexts : RuleInit(text, [kind |-> "idem"])
SpecIdem == InitIdem /\ [][RuleNext]_vars

\* C1: once both rules have been applied, applying them again replaces
\* nothing and leaves the text as it is.
C1_Idempotent ==
    pc = "write" =>
        /\ Combined(new_content) = 0
        /\ RefSubn(InlineSubn(new_content).text).text = new_content

(* ---- a link with an absolute target among other links ---- *)
PassBefore == {<<>>, <<"t", " ">>,
               <<"[", "a", "]", "(", ".", ".", "/", "b", ")">>,
               <<"[", "a", "]", "(", ".", ".", "/", "b", " ">>}
PassLabels == {<<"L">>, <<"p", " ", "#", "q">>}
PassTargets == {<<"/", "x">>, <<"h", ":", "/", "/", "e">>, <<" ", "/", "x">>}
PassAfter == {<<>>, <<" ", "u">>, <<"[", "b", "]", "(", ".", "/", "c", ")">>}
PassProbes ==
    [kind : {"pass"}, before : PassBefore, label : PassLabels, target : PassTargets,
     after : PassAfter]
PassLink(pr) == <<"[">> \o pr.label \o <<"]", "(">> \o pr.target \o <<")">>
PassText(pr) == pr.before \o PassLink(pr) \o pr.after

InitPass == \E pr \in PassProbes : RuleInit(PassText(pr), pr)
SpecPass == InitPass /\ [][RuleNext]_vars

\* C3: an inline link whose target does not begin with ../ or ./ comes out of
\* the inline rule byte-identical, whatever else the text contains.
C3_Passthrough ==
    pc = "ref" => Contains(new_content, PassLink(probe))

(* ---- texts made of lines: reference definitions, blank lines, prose ---- *)
RefLine(lead, label, segs, path, anchor, title) ==
    [qualifies |-> TRUE,
     text |-> lead \o <<"[">> \o label \o <<"]", ":", " ">> \o segs \o path \o anchor \o title,
     out |-> <<"[">> \o label \o <<"]", ":", " ">> \o path \o anchor]
OtherLine(text) == [qualifies |-> FALSE, text |-> text, out |-> text]
LineKinds ==
    {OtherLine(<<>>),
     OtherLine(<<"t">>),
     OtherLine(<<"[", "N", "]", ":", " ", "/", "x">>),
     RefLine(<<>>, <<"R">>, DotDotSlash, <<"P">>, <<>>, <<>>),
     RefLine(<<" ">>, <<"S">>, DotSlash, <<"Q">>, <<"#", "s">>, <<" ", "\"", "T", "\"">>)}
RefProbes == [kind : {"ref"}, lines : SeqsUpTo(LineKinds, 1, MaxLines)]
RefText(pr) == Join([k \in 1..Len(pr.lines) |-> pr.lines[k].text])
RefExpected(pr) == Join([k \in 1..Len(pr.lines) |-> pr.lines[k].out])
RefCount(pr) == Cardinality({k \in 1..Len(pr.lines) : pr.lines[k].qualifies})

InitRef == \E pr \in RefProbes : RuleInit(RefText(pr), pr)
SpecRef == InitRef /\ [][RuleNext]_vars

\* C4: the reference rule replaces every qualifying line on its own line, by
\* [label]: path#anchor without the title; every other line and every line
\* break stays, and the count is the number of qualifying lines.
C4_PerLine ==
    pc = "write" => new_content = RefExpected(probe) /\ n2 = RefCount(probe)

====
